---------------------------- MODULE Spec2Model ----------------------------
(***************************************************************************)
(* A model of the IMGW download / unzip / merge helpers of                  *)
(* python/utils.py (python/simple_utils.py holds the same code with         *)
(* docstrings).                                                             *)
(*                                                                          *)
(* Text is modelled as a sequence of one-character strings, so that the     *)
(* regular expressions of the source are computed position by position.     *)
(* Characters outside ASCII are written by their code point ("U+015A").     *)
(* Every function of the source is a small state machine of its own; each   *)
(* has its own specification (SpecTable, SpecClean, ...), the variables of  *)
(* the other functions staying idle.                                        *)
(***************************************************************************)
EXTENDS Integers, Sequences, FiniteSets, TLC

VARIABLES
    \* get_dates_from_table / get_info_files_from_table
    table,          \* the link texts (e.string) of bs4_table.find_all('a')
    opT,            \* which of the two functions was called
    pcT,            \* "call" | "returned" | "fault"
    result,         \* the returned list
    \* clean_directories
    fs,             \* the filesystem: path -> "absent" | "file" | "dir"
    fs0,            \* the filesystem when clean_directories was called
    main_directory, \* its argument
    listOrder,      \* the order in which the system lists a directory's entries
    walk,           \* what os.walk(main_directory, topdown=False) has yet to yield
    pcC,            \* "setup" | "walk" | "done" | "fault"
    \* download_imgw_info_files / download_all_zip_files / download_url
    caller,         \* "info" | "zip": which loop runs
    file_names,     \* file_names, or date_directories
    idx,            \* how many items the loop has taken
    calls,          \* the (url, save_path) of every download_url call so far
    disk,           \* save path -> [exists, data]
    cur,            \* the running call: its paths, the response, the disk before it
    pcD,            \* "loop" | "got" | "writing" | "done" | "fault"
    \* get_headers_from_info_file
    info_file,      \* the lines of the file, as readline() gives them
    content,        \* the local of that name
    footer_ix,      \* the local of that name (0-based, -1 until found)
    headers,        \* the returned list
    pcH,            \* "open" | "read" | "footer" | "returned" | "fault"
    \* merge_imgw_csv_files
    csv_dir,        \* os.listdir(csv_dir) with each file's rows: [name, nrows]
    headers_arg,    \* the argument headers (None or a list of labels)
    f_name_pattern, \* the argument of that name (None or a pattern)
    posM,           \* how many names the loop has taken
    csv_files,      \* the local of that name: the frames read so far
    df,             \* the local of that name: [columns, rows]
    pcM,            \* "scan" | "concat" | "returned" | "fault"
    \* unzip_all
    zip_dir,        \* os.listdir(zip_dir) with each file's content
    unzip_dir,      \* member name -> what the directory holds under it
    unzip_dir0,     \* unzip_dir when unzip_all was called
    posU,           \* how many names the loop has taken
    pcU             \* "loop" | "done" | "fault"

varsT == <<table, opT, pcT, result>>
varsC == <<fs, fs0, main_directory, listOrder, walk, pcC>>
varsD == <<caller, file_names, idx, calls, disk, cur, pcD>>
varsH == <<info_file, content, footer_ix, headers, pcH>>
varsM == <<csv_dir, headers_arg, f_name_pattern, posM, csv_files, df, pcM>>
varsU == <<zip_dir, unzip_dir, unzip_dir0, posU, pcU>>
vars == <<varsT, varsC, varsD, varsH, varsM, varsU>>

\* Python's None, told from every text by its one element, which is no character
None == <<"None">>

(***************************************************************************)
(* Characters and the classes the regular expressions use.                  *)
(***************************************************************************)
NL == "\n"
AsciiDigit == {"1", "2"}
AsciiUpper == {"T"}
AsciiLower == {"a", "b", "t", "x"}
\* the Polish capitals the header patterns list: A, E, C, N, Z, Z, S with their
\* marks (the pattern writes the C twice and has no L with stroke, no O acute)
PatternPolishUpper ==
    {"U+0104", "U+0118", "U+0106", "U+0143", "U+017B", "U+0179", "U+015A"}
\* and the small letters it lists (no l with stroke, no o acute)
PatternPolishLower ==
    {"U+0105", "U+0119", "U+0107", "U+0144", "U+017C", "U+017A", "U+015B"}
\* L with stroke, O acute
OtherUpper == {"U+0141", "U+00D3"}
\* l with stroke, o acute
OtherLower == {"U+0142", "U+00F3"}
UpperLetters == AsciiUpper \cup PatternPolishUpper \cup OtherUpper
LowerLetters == AsciiLower \cup PatternPolishLower \cup OtherLower
\* \w of a str pattern: letters (any script), digits, underscore
IsWordChar(c) == c \in AsciiDigit \cup UpperLetters \cup LowerLetters \cup {"_"}
\* \s of a str pattern
IsSpace(c) == c \in {" ", "\t", NL}
\* \d
IsDigit(c) == c \in AsciiDigit
\* "." without re.DOTALL: any character but the newline
IsDot(c) == c # NL

Rep(c, n) == [i \in 1..n |-> c]

\* str.replace(old, ""): every occurrence of the one-character old removed
str_replace(s, old) == SelectSeq(s, LAMBDA c : c # old)

\* str.endswith(suffix)
str_endswith(s, suffix) ==
    /\ Len(s) >= Len(suffix)
    /\ SubSeq(s, Len(s) - Len(suffix) + 1, Len(s)) = suffix

\* "$" without re.MULTILINE matches at the end of the string and just before
\* a newline that is the string's last character; i is the position of the
\* next unread character
re_dollar(s, i) == i = Len(s) + 1 \/ (i = Len(s) /\ s[i] = NL)

\* s[i..] starts with the literal lit
re_literal(s, i, lit) ==
    /\ i + Len(lit) - 1 <= Len(s)
    /\ SubSeq(s, i, i + Len(lit) - 1) = lit

\* \d{n} at position i
re_digits(s, i, n) ==
    /\ i + n - 1 <= Len(s)
    /\ \A k \in i..(i + n - 1) : IsDigit(s[k])

YearLen == 4

\* re.match(r"^\d{4}\/$|^\d{4}\_\d{4}\/$", seq)
re_match_dates(seq) ==
    \/ /\ re_digits(seq, 1, YearLen)
       /\ re_literal(seq, YearLen + 1, <<"/">>)
       /\ re_dollar(seq, YearLen + 2)
    \/ /\ re_digits(seq, 1, YearLen)
       /\ re_literal(seq, YearLen + 1, <<"_">>)
       /\ re_digits(seq, YearLen + 2, YearLen)
       /\ re_literal(seq, 2 * YearLen + 2, <<"/">>)
       /\ re_dollar(seq, 2 * YearLen + 3)

\* re.match(r"(\w+).txt$", seq): one or more word characters from the start,
\* then any one character (the dot is not escaped), then "txt", then "$"
re_match_info(seq) ==
    \E n \in 1..Len(seq) :
        /\ \A k \in 1..n : IsWordChar(seq[k])
        /\ n + 1 <= Len(seq)
        /\ IsDot(seq[n + 1])
        /\ re_literal(seq, n + 2, <<"t", "x", "t">>)
        /\ re_dollar(seq, n + 5)

\* list(map(lambda e: e.replace("/",""), kept))
strip_slashes(kept) == [i \in 1..Len(kept) |-> str_replace(kept[i], "/")]

(***************************************************************************)
(* The listings the two functions are run on.                               *)
(***************************************************************************)
MaxLinks == 2
MaxDigits == 5

DateTails == { <<>>, <<"/">>, <<"/", "/">>, <<"/", NL>>, <<NL>>, <<"/", "a">> }
RangeTails == { <<>>, <<"/">>, <<"/", NL>> }

DateTexts ==
    { Rep(d, n) \o t : d \in {"1"}, n \in (YearLen - 1)..MaxDigits, t \in DateTails }
    \cup { Rep("2", YearLen) \o <<"/">>, <<"a">> \o Rep("1", YearLen) \o <<"/">> }
    \cup { Rep("1", n) \o <<sep>> \o Rep("2", m) \o t :
             n \in (YearLen - 1)..YearLen, m \in (YearLen - 1)..YearLen,
             sep \in {"_"}, t \in RangeTails }
    \cup { Rep("1", YearLen) \o <<"-">> \o Rep("2", YearLen) \o <<"/">> }

InfoTexts ==
    { <<"a", ".", "t", "x", "t">>,
      <<"a", "b", ".", "t", "x", "t">>,
      <<"a", "_", "1", ".", "t", "x", "t">>,
      <<"a", "b", "t", "x", "t">>,
      <<"a", "-", "b", ".", "t", "x", "t">>,
      <<"a", ".", "t", "x", "t", NL>>,
      <<"a", "/", "t", "x", "t">>,
      <<"a", ".", "t", "x">>,
      <<"a", ".", "t", "x", "t", "x">>,
      <<"a", ".", "t", "x", "t", "/">> }

\* e.string is None for an <a> with no child or with several children
LinkTexts == DateTexts \cup InfoTexts \cup {None}

Tables == UNION { [1..n -> LinkTexts] : n \in 0..MaxLinks }

IdleT == table = <<>> /\ opT = "idle" /\ pcT = "idle" /\ result = <<>>
IdleC ==
    /\ fs = <<>> /\ fs0 = <<>> /\ main_directory = <<>>
    /\ listOrder = <<>> /\ walk = <<>> /\ pcC = "idle"

IdleD ==
    /\ caller = "idle" /\ file_names = <<>> /\ idx = 0 /\ calls = <<>>
    /\ disk = <<>> /\ cur = <<>> /\ pcD = "idle"

IdleH ==
    /\ info_file = <<>> /\ content = <<>> /\ footer_ix = -1 /\ headers = <<>>
    /\ pcH = "idle"

IdleM ==
    /\ csv_dir = <<>> /\ headers_arg = <<>> /\ f_name_pattern = <<>> /\ posM = 0
    /\ csv_files = <<>> /\ df = <<>> /\ pcM = "idle"
IdleU ==
    /\ zip_dir = <<>> /\ unzip_dir = <<>> /\ unzip_dir0 = <<>> /\ posU = 0
    /\ pcU = "idle"

OtherT == <<varsC, varsD, varsH, varsM, varsU>>
OtherC == <<varsT, varsD, varsH, varsM, varsU>>
OtherD == <<varsT, varsC, varsH, varsM, varsU>>
OtherH == <<varsT, varsC, varsD, varsM, varsU>>
OtherM == <<varsT, varsC, varsD, varsH, varsU>>
OtherU == <<varsT, varsC, varsD, varsH, varsM>>

InitTable ==
    /\ table \in Tables
    /\ opT = "none"
    /\ pcT = "call"
    /\ result = <<>>
    /\ IdleC /\ IdleD /\ IdleH /\ IdleM /\ IdleU

\* re.match(p, None) raises TypeError: the filter faults on the first None
\* it meets, whatever it kept before
has_none(links) == \E k \in 1..Len(links) : links[k] = None

get_dates_from_table ==
    /\ pcT = "call"
    /\ opT' = "dates"
    /\ IF has_none(table)
         THEN pcT' = "fault" /\ result' = <<>>
         ELSE pcT' = "returned"
              /\ result' = strip_slashes(SelectSeq(table, re_match_dates))
    /\ UNCHANGED table
    /\ UNCHANGED OtherT

get_info_files_from_table ==
    /\ pcT = "call"
    /\ opT' = "info"
    /\ IF has_none(table)
         THEN pcT' = "fault" /\ result' = <<>>
         ELSE pcT' = "returned"
              /\ result' = strip_slashes(SelectSeq(table, re_match_info))
    /\ UNCHANGED table
    /\ UNCHANGED OtherT

NextTable == get_dates_from_table \/ get_info_files_from_table

SpecTable == InitTable /\ [][NextTable]_vars

(***************************************************************************)
(* C1 and C2, as the specification states them.                             *)
(***************************************************************************)
EndsInTxt(s) == str_endswith(s, <<".", "t", "x", "t">>)

\* C1: extractInfoFileNames returns, in table order and verbatim, exactly the
\* link texts that end in ".txt".
C1_InfoFilesAreTxtNames ==
    (opT = "info" /\ pcT = "returned") => result = SelectSeq(table, EndsInTxt)

IsYear(s) == Len(s) = YearLen /\ \A k \in 1..Len(s) : s[k] \in AsciiDigit
IsYearRange(s) ==
    /\ Len(s) = 2 * YearLen + 1
    /\ IsYear(SubSeq(s, 1, YearLen))
    /\ s[YearLen + 1] = "_"
    /\ IsYear(SubSeq(s, YearLen + 2, Len(s)))
IsDateDirText(s) ==
    /\ Len(s) >= 1
    /\ s[Len(s)] = "/"
    /\ (IsYear(SubSeq(s, 1, Len(s) - 1)) \/ IsYearRange(SubSeq(s, 1, Len(s) - 1)))
StripSlash(s) == SubSeq(s, 1, Len(s) - 1)

\* C2: extractDateDirectories returns exactly the link texts of the form
\* YYYY/ or YYYY_YYYY/, the trailing slash stripped, in table order with
\* duplicates kept.
C2_DatesAreDateDirectories ==
    (opT = "dates" /\ pcT = "returned") =>
        LET dirs == SelectSeq(table, IsDateDirText)
        IN  result = [i \in 1..Len(dirs) |-> StripSlash(dirs[i])]

(***************************************************************************)
(* clean_directories.  The filesystem is a tree of files and directories    *)
(* below the root "r"; the setup steps build it, then clean_directories is  *)
(* called once on main_directory and runs one filesystem call per step.     *)
(***************************************************************************)
MaxDepth == 2

EntryNames == {"a", "b"}
Root == <<"r">>
Paths == UNION { { Root \o t : t \in [1..n -> EntryNames] } : n \in 0..MaxDepth }
Parent(p) == SubSeq(p, 1, Len(p) - 1)
IsUnder(p, q) == Len(p) > Len(q) /\ SubSeq(p, 1, Len(q)) = q
Children(f, p) == { q \in Paths : Len(q) = Len(p) + 1 /\ Parent(q) = p /\ f[q] # "absent" }

\* the names a directory lists, in the system's order, that are of a kind
scandir(f, p, kind) ==
    SelectSeq(listOrder, LAMBDA n : p \o <<n>> \in Paths /\ f[p \o <<n>>] = kind)

RECURSIVE os_walk_topdown(_, _)
\* os.walk(top, topdown=True): a directory is yielded before its subdirectories
os_walk_topdown(f, top) ==
    IF f[top] # "dir" THEN <<>>
    ELSE LET dirs == scandir(f, top, "dir")
             files == scandir(f, top, "file")
             sub[i \in 0..Len(dirs)] ==
                 IF i = 0 THEN <<>>
                 ELSE sub[i - 1] \o os_walk_topdown(f, top \o <<dirs[i]>>)
         IN  <<[root |-> top, dirs |-> dirs, files |-> files]>> \o sub[Len(dirs)]

RECURSIVE os_walk(_, _)
\* os.walk(top, topdown=False): scandir(top) (an error there ends the walk of
\* top silently), the walks of the subdirectories, then top's own triple
os_walk(f, top) ==
    IF f[top] # "dir" THEN <<>>
    ELSE LET dirs == scandir(f, top, "dir")
             files == scandir(f, top, "file")
             sub[i \in 0..Len(dirs)] ==
                 IF i = 0 THEN <<>>
                 ELSE sub[i - 1] \o os_walk(f, top \o <<dirs[i]>>)
         IN  sub[Len(dirs)] \o <<[root |-> top, dirs |-> dirs, files |-> files]>>

InitClean ==
    /\ fs = [p \in Paths |-> "absent"]
    /\ fs0 = [p \in Paths |-> "absent"]
    /\ main_directory = <<>>
    /\ listOrder \in { o \in [1..Cardinality(EntryNames) -> EntryNames] :
                         \A i, j \in DOMAIN o : i # j => o[i] # o[j] }
    /\ walk = <<>>
    /\ pcC = "setup"
    /\ IdleT /\ IdleD /\ IdleH /\ IdleM /\ IdleU

CanCreate(p) == fs[p] = "absent" /\ (IF p = Root THEN TRUE ELSE fs[Parent(p)] = "dir")

\* os.mkdir(os.path.join(root_dir, d)), and the root made by hand
os_mkdir ==
    /\ pcC = "setup"
    /\ \E p \in Paths : CanCreate(p) /\ fs' = [fs EXCEPT ![p] = "dir"]
    /\ UNCHANGED <<fs0, main_directory, listOrder, walk, pcC>>
    /\ UNCHANGED OtherC

\* open(save_path, 'wb'): a file appears
create_file ==
    /\ pcC = "setup"
    /\ \E p \in Paths : CanCreate(p) /\ fs' = [fs EXCEPT ![p] = "file"]
    /\ UNCHANGED <<fs0, main_directory, listOrder, walk, pcC>>
    /\ UNCHANGED OtherC

CleanTargets == { p \in Paths : Len(p) <= 2 }

\* if os.path.exists(main_directory): ... os.walk(...) else: print(...)
clean_directories_call ==
    /\ pcC = "setup"
    /\ \E d \in CleanTargets :
        /\ main_directory' = d
        /\ fs0' = fs
        /\ IF fs[d] # "absent"
             THEN walk' = os_walk(fs, d) /\ pcC' = "walk"
             ELSE walk' = <<>> /\ pcC' = "done"
    /\ UNCHANGED <<fs, listOrder>>
    /\ UNCHANGED OtherC

\* for f in files: os.remove(os.path.join(root, f))
clean_remove_file ==
    /\ pcC = "walk" /\ walk # <<>> /\ Head(walk).files # <<>>
    /\ LET triple == Head(walk)
           p == triple.root \o <<Head(triple.files)>>
       IN  IF fs[p] = "file"
             THEN /\ fs' = [fs EXCEPT ![p] = "absent"]
                  /\ walk' = <<[triple EXCEPT !.files = Tail(triple.files)]>> \o Tail(walk)
                  /\ pcC' = "walk"
             ELSE /\ pcC' = "fault"
                  /\ UNCHANGED <<fs, walk>>
    /\ UNCHANGED <<fs0, main_directory, listOrder>>
    /\ UNCHANGED OtherC

\* for d in dirs: os.rmdir(os.path.join(root, d)); OSError when d is not an
\* empty directory
clean_rmdir ==
    /\ pcC = "walk" /\ walk # <<>> /\ Head(walk).files = <<>> /\ Head(walk).dirs # <<>>
    /\ LET triple == Head(walk)
           p == triple.root \o <<Head(triple.dirs)>>
       IN  IF fs[p] = "dir" /\ Children(fs, p) = {}
             THEN /\ fs' = [fs EXCEPT ![p] = "absent"]
                  /\ walk' = <<[triple EXCEPT !.dirs = Tail(triple.dirs)]>> \o Tail(walk)
                  /\ pcC' = "walk"
             ELSE /\ pcC' = "fault"
                  /\ UNCHANGED <<fs, walk>>
    /\ UNCHANGED <<fs0, main_directory, listOrder>>
    /\ UNCHANGED OtherC

\* the next triple of the walk
clean_next_root ==
    /\ pcC = "walk" /\ walk # <<>> /\ Head(walk).files = <<>> /\ Head(walk).dirs = <<>>
    /\ walk' = Tail(walk)
    /\ UNCHANGED <<fs, fs0, main_directory, listOrder, pcC>>
    /\ UNCHANGED OtherC

\* the walk is exhausted: clean_directories returns
clean_return ==
    /\ pcC = "walk" /\ walk = <<>>
    /\ pcC' = "done"
    /\ UNCHANGED <<fs, fs0, main_directory, listOrder, walk>>
    /\ UNCHANGED OtherC

NextClean ==
    \/ os_mkdir
    \/ create_file
    \/ clean_directories_call
    \/ clean_remove_file
    \/ clean_rmdir
    \/ clean_next_root
    \/ clean_return

SpecClean == InitClean /\ [][NextClean]_vars

\* C3: clean_directories never faults; called on an existing directory it
\* returns with the directory still there and nothing below it; called on a
\* path that does not exist it returns with the filesystem as it was.
C3_CleanLeavesEmptyDirectory ==
    /\ pcC # "fault"
    /\ pcC = "done" =>
        /\ fs0[main_directory] = "dir" =>
              /\ fs[main_directory] = "dir"
              /\ \A p \in Paths : IsUnder(p, main_directory) => fs[p] = "absent"
        /\ fs0[main_directory] = "absent" => fs = fs0

\* a directory holding a file two levels down and a file of its own was cleaned
C3_Witness ==
    /\ pcC = "done"
    /\ fs0[main_directory] = "dir"
    /\ \E p \in Paths : Len(p) = Len(main_directory) + 2 /\ IsUnder(p, main_directory)
                         /\ fs0[p] = "file"
    /\ \E p \in Paths : Len(p) = Len(main_directory) + 1 /\ IsUnder(p, main_directory)
                         /\ fs0[p] = "file"
    /\ Children(fs, main_directory) = {}

(***************************************************************************)
(* download_url and the two loops that call it.  One step per network or    *)
(* file operation: requests.get, the status test, open, each chunk written. *)
(***************************************************************************)
MaxNames == 2
MaxChunks == 2

HTTP_OK == 200
Statuses == {200, 204, 404}

BaseUrl == <<"u", "/">>
DownloadDir == <<"d">>
FilePattern == <<"_", "k">>
Ext == <<".", "z">>
ItemNames == { <<"1">>, <<"2">> }

\* os.path.join(download_dir, fname) for a relative fname
os_path_join(dir, fname) == dir \o <<"/">> \o fname

\* download_imgw_info_files: download_url(url + "/" + fname, join(download_dir, fname))
info_call(url, fname, dir) ==
    [url |-> url \o <<"/">> \o fname, save_path |-> os_path_join(dir, fname)]

\* download_all_zip_files: fname = dd + file_pattern + ext;
\* download_url(url + dd + "/" + fname, join(download_dir, fname))
zip_call(url, dd, pattern, ext, dir) ==
    LET fname == dd \o pattern \o ext
    IN  [url |-> url \o dd \o <<"/">> \o fname, save_path |-> os_path_join(dir, fname)]

loop_call(c, item) ==
    IF c = "info" THEN info_call(BaseUrl, item, DownloadDir)
                  ELSE zip_call(BaseUrl, item, FilePattern, Ext, DownloadDir)

SavePaths(c) == { loop_call(c, n).save_path : n \in ItemNames }
Absent == [exists |-> FALSE, data |-> <<>>]
\* a file from an earlier run; downloaded chunks are numbered from 1
OldFile == [exists |-> TRUE, data |-> <<0>>]
\* answer: "none" | "raise" | "response"; status_code is 0 without a response
NoCall == [url |-> <<>>, save_path |-> <<>>, answer |-> "none", status_code |-> 0,
           chunks |-> 0, before |-> <<>>]

InitDownload ==
    /\ caller \in {"info", "zip"}
    /\ file_names \in UNION { [1..n -> ItemNames] : n \in 0..MaxNames }
    /\ idx = 0
    /\ calls = <<>>
    /\ disk \in [SavePaths(caller) -> {Absent, OldFile}]
    /\ cur = NoCall
    /\ pcD = "loop"
    /\ IdleT /\ IdleC /\ IdleH /\ IdleM /\ IdleU

\* the loop takes its next item and download_url runs requests.get(url,
\* stream=True), which answers with a status or raises (no connection)
download_url_get ==
    /\ pcD = "loop" /\ idx < Len(file_names)
    /\ LET c == loop_call(caller, file_names[idx + 1])
       IN  /\ idx' = idx + 1
           /\ calls' = Append(calls, c)
           /\ \E answer \in {"response", "raise"} :
                IF answer = "raise"
                  THEN /\ cur' = [url |-> c.url, save_path |-> c.save_path,
                                  answer |-> "raise", status_code |-> 0,
                                  chunks |-> 0, before |-> disk]
                       /\ pcD' = "fault"
                  ELSE /\ \E st \in Statuses, n \in 0..MaxChunks :
                            cur' = [url |-> c.url, save_path |-> c.save_path,
                                    answer |-> "response", status_code |-> st,
                                    chunks |-> n, before |-> disk]
                       /\ pcD' = "got"
    /\ UNCHANGED <<caller, file_names, disk>>
    /\ UNCHANGED OtherD

\* the same branch, had the file been opened before the status was looked at
download_url_reject_after_open ==
    /\ pcD = "got" /\ cur.status_code # HTTP_OK
    /\ disk' = [disk EXCEPT ![cur.save_path] = [exists |-> TRUE, data |-> <<>>]]
    /\ pcD' = "loop"
    /\ UNCHANGED <<caller, file_names, idx, calls, cur>>
    /\ UNCHANGED OtherD

\* the same branch, had the status been raised (r.raise_for_status())
download_url_reject_raises ==
    /\ pcD = "got" /\ cur.status_code # HTTP_OK
    /\ pcD' = "fault"
    /\ UNCHANGED <<caller, file_names, idx, calls, disk, cur>>
    /\ UNCHANGED OtherD

\* else: print("File does not exist. ...")
download_url_reject ==
    /\ pcD = "got" /\ cur.status_code # HTTP_OK
    /\ pcD' = "loop"
    /\ UNCHANGED <<caller, file_names, idx, calls, disk, cur>>
    /\ UNCHANGED OtherD

\* if r.status_code == 200: open(save_path, 'wb') creates or truncates the
\* file, or raises, which the bare except reports
download_url_open ==
    /\ pcD = "got" /\ cur.status_code = HTTP_OK
    /\ \E opened \in BOOLEAN :
         IF opened
           THEN /\ disk' = [disk EXCEPT ![cur.save_path] = [exists |-> TRUE, data |-> <<>>]]
                /\ pcD' = "writing"
           ELSE /\ pcD' = "loop"
                /\ UNCHANGED disk
    /\ UNCHANGED <<caller, file_names, idx, calls, cur>>
    /\ UNCHANGED OtherD

\* for chunk in r.iter_content(...): fd.write(chunk)
download_url_write ==
    /\ pcD = "writing" /\ Len(disk[cur.save_path].data) < cur.chunks
    /\ disk' = [disk EXCEPT ![cur.save_path].data = Append(@, Len(@) + 1)]
    /\ UNCHANGED <<caller, file_names, idx, calls, cur, pcD>>
    /\ UNCHANGED OtherD

\* iter_content or fd.write raises: except: print("Unable to download ...")
download_url_write_fails ==
    /\ pcD = "writing" /\ Len(disk[cur.save_path].data) < cur.chunks
    /\ pcD' = "loop"
    /\ UNCHANGED <<caller, file_names, idx, calls, disk, cur>>
    /\ UNCHANGED OtherD

\* the body is exhausted: the file is closed and download_url returns
download_url_close ==
    /\ pcD = "writing" /\ Len(disk[cur.save_path].data) = cur.chunks
    /\ pcD' = "loop"
    /\ UNCHANGED <<caller, file_names, idx, calls, disk, cur>>
    /\ UNCHANGED OtherD

\* the for loop is exhausted: the batch function returns
download_loop_end ==
    /\ pcD = "loop" /\ idx = Len(file_names)
    /\ pcD' = "done"
    /\ UNCHANGED <<caller, file_names, idx, calls, disk, cur>>
    /\ UNCHANGED OtherD

NextDownload ==
    \/ download_url_get
    \/ download_url_reject
    \/ download_url_open
    \/ download_url_write
    \/ download_url_write_fails
    \/ download_url_close
    \/ download_loop_end

SpecDownload == InitDownload /\ [][NextDownload]_vars

\* the item a batch downloads for a name, as the specification writes it
SpecUrl(c, n) ==
    IF c = "info" THEN BaseUrl \o <<"/">> \o n
                  ELSE BaseUrl \o n \o <<"/">> \o n \o FilePattern \o Ext
SpecPath(c, n) ==
    IF c = "info" THEN DownloadDir \o <<"/">> \o n
                  ELSE DownloadDir \o <<"/">> \o n \o FilePattern \o Ext

\* C4: the calls of download_url are, in order, the items of the input, one
\* per name; a batch that returns has called it for every name; and nothing
\* but an exception raised by the request itself ends a batch early: after a
\* non-200 status or a failed write the loop goes on.
C4_BatchCallsEveryNameInOrder ==
    /\ Len(calls) = idx /\ idx <= Len(file_names)
    /\ \A k \in 1..Len(calls) :
          /\ calls[k].url = SpecUrl(caller, file_names[k])
          /\ calls[k].save_path = SpecPath(caller, file_names[k])
    /\ pcD = "done" => Len(calls) = Len(file_names)
    /\ pcD = "fault" => cur.answer = "raise"

\* a batch of two names came to its end: its first item failed (its file was
\* never made), its second item was downloaded
C4_Witness ==
    /\ pcD = "done"
    /\ Len(calls) = 2
    /\ calls[1] # calls[2]
    /\ disk[calls[1].save_path] = Absent
    /\ disk[calls[2].save_path] = [exists |-> TRUE, data |-> <<1>>]

\* C5: a download_url call answered with a status other than 200 leaves
\* every file as it was before the call and raises nothing.
C5_Non200WritesNothing ==
    (cur.answer = "response" /\ cur.status_code # HTTP_OK) =>
        /\ disk = cur.before
        /\ pcD # "fault"

\* a call for a path that held a file was answered 404 and has returned
C5_Witness ==
    /\ cur.answer = "response" /\ cur.status_code = 404
    /\ pcD \in {"loop", "done"}
    /\ cur.before[cur.save_path] = OldFile
    /\ disk[cur.save_path] = OldFile

(***************************************************************************)
(* get_headers_from_info_file.  A file is the sequence of its lines as      *)
(* readline() and readlines() give them: no line is empty, a line break is  *)
(* the last character of a line, only the last line may lack it.            *)
(***************************************************************************)
MaxLines == 3
MaxBody == 4

\* re.match(r"(\s+\n)|(\n)", s) is not None
re_match_blank(s) ==
    \/ \E n \in 1..Len(s) :
          /\ \A k \in 1..n : IsSpace(s[k])
          /\ n + 1 <= Len(s)
          /\ s[n + 1] = NL
    \/ (Len(s) >= 1 /\ s[1] = NL)

\* [A-ZĄĘĆŃŻŹŚĆ]
ClassAStart == AsciiUpper \cup PatternPolishUpper
\* [A-ZĄĘĆŃŻŹŚĆa-ząęćńżźść%°|]
ClassAEnd ==
    AsciiUpper \cup PatternPolishUpper \cup AsciiLower \cup PatternPolishLower
    \cup {"%", "U+00B0", "|"}
\* [\WA-Z]
InClassBStart(c) == ~IsWordChar(c) \/ c \in AsciiUpper
\* [A-ZĄĘĆŃŻŹŚĆa-ząęćńżźść]
ClassBEnd ==
    AsciiUpper \cup PatternPolishUpper \cup AsciiLower \cup PatternPolishLower

Max(S) == CHOOSE x \in S : \A y \in S : y <= x

\* where ".*" may stop: the positions j >= from with s[from..j-1] free of line breaks
dot_star_ends(s, from) ==
    { j \in from..(Len(s) + 1) : \A k \in from..(j - 1) : IsDot(s[k]) }

\* the ends of the matches of ^[A-Z...].*[A-Z...a-z...%°|]] at the start of line
pattern_a_ends(line) ==
    IF Len(line) >= 1 /\ line[1] \in ClassAStart
      THEN { j + 1 : j \in { i \in dot_star_ends(line, 2) :
                               /\ i + 1 <= Len(line)
                               /\ line[i] \in ClassAEnd
                               /\ line[i + 1] = "]" } }
      ELSE {}

\* the ends of the matches of ^[\WA-Z].*[A-Z...a-z...] at the start of line
pattern_b_ends(line) ==
    IF Len(line) >= 1 /\ InClassBStart(line[1])
      THEN { i \in dot_star_ends(line, 2) : i <= Len(line) /\ line[i] \in ClassBEnd }
      ELSE {}

\* group 1 and group 2 of the one match ".*" being greedy; <<>> when the
\* pattern does not match
capture_a(line) ==
    IF pattern_a_ends(line) = {} THEN <<>> ELSE SubSeq(line, 1, Max(pattern_a_ends(line)))
capture_b(line) ==
    IF pattern_b_ends(line) = {} THEN <<>> ELSE SubSeq(line, 1, Max(pattern_b_ends(line)))

\* re.findall("(^...)|(^...)", line, re.UNICODE): the tuples (group 1, group 2)
\* of the matches; "^" holds at the start only, the first alternative that
\* matches there wins, the other group is ''
re_findall(line) ==
    IF capture_a(line) # <<>> THEN << <<capture_a(line), (<<>>)>> >>
    ELSE IF capture_b(line) # <<>> THEN << <<(<<>>), capture_b(line)>> >>
    ELSE <<>>

\* tuple(filter(lambda s: not s=='', e[0]))[0] faults when e is [] (IndexError)
header_faults(e) == e = <<>> \/ SelectSeq(e[1], LAMBDA g : g # <<>>) = <<>>
header_of(e) == Head(SelectSeq(e[1], LAMBDA g : g # <<>>))

\* the indexes (0-based) of list(filter(lambda e: e[-1], enumerate(map(...))))
blank_indexes(lines) == { i \in 0..(Len(lines) - 1) : re_match_blank(lines[i + 1]) }
Min(S) == CHOOSE x \in S : \A y \in S : x <= y

HeaderAlphabet == {"T", "U+015A", "U+0141", "a", "U+00F3", "1", " ", "]", "%"}
Bodies == UNION { [1..n -> HeaderAlphabet] : n \in 1..MaxBody }
HeaderLines == { b \o <<NL>> : b \in Bodies }
StockLines ==
    { <<NL>>, <<" ", NL>>, <<" ">>, <<"T", "a", NL>>, <<"T", "a">>, <<"1", NL>> }
IsTerminated(l) == l[Len(l)] = NL
\* files of up to MaxLines stock lines after the first, and files of one
\* header line of every shape followed by an empty line
InfoFiles ==
    { f \in UNION { [1..n -> StockLines] : n \in 0..(MaxLines + 1) } :
        \A i \in 1..(Len(f) - 1) : IsTerminated(f[i]) }
    \cup { << <<NL>>, h, <<NL>> >> : h \in HeaderLines }

InitHeaders ==
    /\ info_file \in InfoFiles
    /\ content = <<>>
    /\ footer_ix = -1
    /\ headers = <<>>
    /\ pcH = "open"
    /\ IdleT /\ IdleC /\ IdleD /\ IdleM /\ IdleU

\* info_file.readline(); content = info_file.readlines()
headers_read ==
    /\ pcH = "open"
    /\ content' = IF info_file = <<>> THEN <<>> ELSE Tail(info_file)
    /\ pcH' = "read"
    /\ UNCHANGED <<info_file, footer_ix, headers>>
    /\ UNCHANGED OtherH

\* footer_ix = list(filter(...))[0][0] (IndexError when no line matches)
headers_find_footer ==
    /\ pcH = "read"
    /\ IF blank_indexes(content) = {}
         THEN pcH' = "fault" /\ UNCHANGED footer_ix
         ELSE pcH' = "footer" /\ footer_ix' = Min(blank_indexes(content))
    /\ UNCHANGED <<info_file, content, headers>>
    /\ UNCHANGED OtherH

\* content = content[:footer_ix]; return list(map(..., map(re.findall, content)))
headers_extract ==
    /\ pcH = "footer"
    /\ content' = SubSeq(content, 1, footer_ix)
    /\ LET found == [i \in 1..footer_ix |-> re_findall(content[i])]
       IN  IF \E i \in 1..footer_ix : header_faults(found[i])
             THEN pcH' = "fault" /\ UNCHANGED headers
             ELSE pcH' = "returned"
                  /\ headers' = [i \in 1..footer_ix |-> header_of(found[i])]
    /\ UNCHANGED <<info_file, footer_ix>>
    /\ UNCHANGED OtherH

NextHeaders == headers_read \/ headers_find_footer \/ headers_extract

SpecHeaders == InitHeaders /\ [][NextHeaders]_vars

(***************************************************************************)
(* C6 and C10.                                                              *)
(***************************************************************************)
\* the text of a line: the line without the line break that ends it
LineText(l) == IF l # <<>> /\ IsTerminated(l) THEN SubSeq(l, 1, Len(l) - 1) ELSE l
\* the lines after the first, and the header block the call has cut from them
RestLines == IF info_file = <<>> THEN <<>> ELSE Tail(info_file)
HeaderBlock == SubSeq(RestLines, 1, footer_ix)
\* the first non-empty capture of a line, pattern A before pattern B
FirstCapture(l) == IF capture_a(l) # <<>> THEN capture_a(l) ELSE capture_b(l)

\* a line that is only header text, from a capital letter to a letter
IsPlainHeader(l) ==
    /\ LineText(l) # <<>>
    /\ LineText(l)[1] \in UpperLetters
    /\ LineText(l)[Len(LineText(l))] \in UpperLetters \cup LowerLetters

\* C6: a returned list has one entry per header-block line, in order, each
\* the first non-empty capture of its line; a line that is only
\* header text from a capital letter to a letter yields that text; a block
\* line that matches neither pattern makes the call fault.
C6_HeadersAreWholeHeaderTexts ==
    /\ pcH = "returned" =>
          /\ Len(headers) = Len(HeaderBlock)
          /\ \A i \in 1..Len(HeaderBlock) :
                /\ headers[i] = FirstCapture(HeaderBlock[i])
                /\ IsPlainHeader(HeaderBlock[i]) => headers[i] = LineText(HeaderBlock[i])
    /\ (pcH \in {"returned", "fault"} /\ footer_ix >= 0
          /\ \E i \in 1..Len(HeaderBlock) : FirstCapture(HeaderBlock[i]) = <<>>)
       => pcH = "fault"

\* a line that is entirely whitespace, or empty
IsBlankLine(l) == \A k \in 1..Len(l) : IsSpace(l[k])
BlankLines == { i \in 1..Len(RestLines) : IsBlankLine(RestLines[i]) }

\* C10: once the footer has been looked for, the header block is the lines
\* before the first of the remaining lines that is entirely whitespace or
\* empty, be it the last line of the file; without such a line the call
\* faults.
C10_BlockEndsAtFirstBlankLine ==
    pcH \in {"footer", "returned", "fault"} =>
        IF BlankLines # {}
          THEN /\ footer_ix = Min(BlankLines) - 1
               /\ pcH = "returned" => content = SubSeq(RestLines, 1, Min(BlankLines) - 1)
          ELSE pcH = "fault"

(***************************************************************************)
(* merge_imgw_csv_files.  A csv file of n rows holds the rows               *)
(* (name, 1) .. (name, n), each of CsvWidth cells; a frame is its column    *)
(* labels and its rows.  One step per name of the listing, one for          *)
(* pd.concat, one for the relabelling and the return.                       *)
(***************************************************************************)
MaxFiles == 3
MaxRows == 2
CsvWidth == 2

CsvNames ==
    { <<"k", "1", ".", "c", "s", "v">>,
      <<"s", "1", ".", "c", "s", "v">>,
      <<"k", "1", ".", "t", "x", "t">>,
      <<"k", "1", "c", "s", "v">> }
\* a pattern is a sequence of literal characters and "ANY" (the regular
\* expression ".")
NamePatterns == { None, <<"k">>, <<"ANY", "1">>, <<"t">> }
HeaderArgs ==
    { None, [c \in 1..CsvWidth |-> <<"h", c>>], [c \in 1..(CsvWidth - 1) |-> <<"h", c>>] }

\* re.match(f_name_pattern, fname): the pattern matches at the start of fname
re_match_name(pattern, fname) ==
    /\ Len(pattern) <= Len(fname)
    /\ \A k \in 1..Len(pattern) :
          IF pattern[k] = "ANY" THEN IsDot(fname[k]) ELSE pattern[k] = fname[k]

\* pd.read_csv(path, sep=",", header=None, ...): columns 0 .. width-1
read_csv(entry) ==
    [columns |-> [c \in 1..CsvWidth |-> c - 1],
     rows |-> [i \in 1..entry.nrows |-> [c \in 1..CsvWidth |-> <<entry.name, i, c>>]]]

RECURSIVE concat_rows(_)
concat_rows(frames) ==
    IF frames = <<>> THEN <<>> ELSE Head(frames).rows \o concat_rows(Tail(frames))
\* pd.concat(frames) of frames with the same columns
pd_concat(frames) == [columns |-> Head(frames).columns, rows |-> concat_rows(frames)]

CsvEntries == [name : CsvNames, nrows : 0..MaxRows]
CsvDirs ==
    { d \in UNION { [1..n -> CsvEntries] : n \in 0..MaxFiles } :
        \A i, j \in 1..Len(d) : i # j => d[i].name # d[j].name }

InitMerge ==
    /\ csv_dir \in CsvDirs
    /\ headers_arg \in HeaderArgs
    /\ f_name_pattern \in NamePatterns
    /\ posM = 0
    /\ csv_files = <<>>
    /\ df = <<>>
    /\ pcM = "scan"
    /\ IdleT /\ IdleC /\ IdleD /\ IdleH /\ IdleU

\* the loop body with the test of the extension left out
merge_scan_any_extension ==
    /\ pcM = "scan" /\ posM < Len(csv_dir)
    /\ LET entry == csv_dir[posM + 1]
       IN  IF (IF f_name_pattern = None THEN TRUE
                                        ELSE re_match_name(f_name_pattern, entry.name))
             THEN IF entry.nrows = 0
                    THEN pcM' = "fault" /\ UNCHANGED <<posM, csv_files>>
                    ELSE /\ csv_files' = Append(csv_files, read_csv(entry))
                         /\ posM' = posM + 1
                         /\ UNCHANGED pcM
             ELSE posM' = posM + 1 /\ UNCHANGED <<csv_files, pcM>>
    /\ UNCHANGED <<csv_dir, headers_arg, f_name_pattern, df>>
    /\ UNCHANGED OtherM

\* for fname in os.listdir(csv_dir): if fname.endswith(".csv"): if
\* f_name_pattern is None or re.match(...): csv_files.append(pd.read_csv(...))
\* (read_csv raises EmptyDataError on a file without a row)
merge_scan ==
    /\ pcM = "scan" /\ posM < Len(csv_dir)
    /\ LET entry == csv_dir[posM + 1]
       IN  IF /\ str_endswith(entry.name, <<".", "c", "s", "v">>)
              /\ (IF f_name_pattern = None THEN TRUE
                                           ELSE re_match_name(f_name_pattern, entry.name))
             THEN IF entry.nrows = 0
                    THEN pcM' = "fault" /\ UNCHANGED <<posM, csv_files>>
                    ELSE /\ csv_files' = Append(csv_files, read_csv(entry))
                         /\ posM' = posM + 1
                         /\ UNCHANGED pcM
             ELSE posM' = posM + 1 /\ UNCHANGED <<csv_files, pcM>>
    /\ UNCHANGED <<csv_dir, headers_arg, f_name_pattern, df>>
    /\ UNCHANGED OtherM

\* a concat that answers an empty list with an empty frame
merge_concat_empty_frame ==
    /\ pcM = "scan" /\ posM = Len(csv_dir)
    /\ df' = IF csv_files = <<>>
               THEN [columns |-> <<>>, rows |-> <<>>]
               ELSE pd_concat(csv_files)
    /\ pcM' = "concat"
    /\ UNCHANGED <<csv_dir, headers_arg, f_name_pattern, posM, csv_files>>
    /\ UNCHANGED OtherM

\* df = pd.concat(csv_files): ValueError("No objects to concatenate") on []
merge_concat ==
    /\ pcM = "scan" /\ posM = Len(csv_dir)
    /\ IF csv_files = <<>>
         THEN pcM' = "fault" /\ UNCHANGED df
         ELSE pcM' = "concat" /\ df' = pd_concat(csv_files)
    /\ UNCHANGED <<csv_dir, headers_arg, f_name_pattern, posM, csv_files>>
    /\ UNCHANGED OtherM

\* if headers is not None: df.columns = headers (ValueError on a length
\* mismatch); return df
merge_return ==
    /\ pcM = "concat"
    /\ IF headers_arg = None
         THEN pcM' = "returned" /\ UNCHANGED df
         ELSE IF Len(headers_arg) # Len(df.columns)
                THEN pcM' = "fault" /\ UNCHANGED df
                ELSE pcM' = "returned" /\ df' = [df EXCEPT !.columns = headers_arg]
    /\ UNCHANGED <<csv_dir, headers_arg, f_name_pattern, posM, csv_files>>
    /\ UNCHANGED OtherM

NextMerge == merge_scan \/ merge_concat \/ merge_return

SpecMerge == InitMerge /\ [][NextMerge]_vars

\* the files the specification selects: the name ends in ".csv" and, with a
\* name filter, the filter matches the name at its start
EndsInCsv(n) ==
    /\ Len(n) >= 4
    /\ n[Len(n) - 3] = "." /\ n[Len(n) - 2] = "c" /\ n[Len(n) - 1] = "s" /\ n[Len(n)] = "v"
IsSelected(e) ==
    /\ EndsInCsv(e.name)
    /\ f_name_pattern # None =>
          /\ Len(f_name_pattern) <= Len(e.name)
          /\ \A k \in 1..Len(f_name_pattern) :
                f_name_pattern[k] \in {"ANY", e.name[k]}
SelectedFiles == SelectSeq(csv_dir, IsSelected)
RECURSIVE SumRows(_)
SumRows(es) == IF es = <<>> THEN 0 ELSE Head(es).nrows + SumRows(Tail(es))
\* the cell of row r, column c of the stacked selected files
RECURSIVE CellOf(_, _, _)
CellOf(es, r, c) ==
    IF r <= Head(es).nrows THEN <<Head(es).name, r, c>>
                           ELSE CellOf(Tail(es), r - Head(es).nrows, c)

\* C7: the returned frame stacks exactly the selected files: as many rows as
\* they hold together, each row of the files' width, the cells those of the
\* files in listing order; headers, when given, are the column labels and
\* change no row.
C7_MergeStacksSelectedFiles ==
    pcM = "returned" =>
        /\ Len(df.rows) = SumRows(SelectedFiles)
        /\ \A r \in 1..Len(df.rows) :
              /\ Len(df.rows[r]) = CsvWidth
              /\ \A c \in 1..CsvWidth : df.rows[r][c] = CellOf(SelectedFiles, r, c)
        /\ Len(df.columns) = CsvWidth
        /\ df.columns = IF headers_arg = None THEN [c \in 1..CsvWidth |-> c - 1]
                                              ELSE headers_arg

\* three files, two of them selected by the name filter, were merged under
\* given headers
C7_Witness ==
    /\ pcM = "returned"
    /\ Len(csv_dir) = 3
    /\ Len(SelectedFiles) = 2
    /\ f_name_pattern # None
    /\ headers_arg # None
    /\ Len(df.rows) = 3
    /\ \E i \in 1..3 : csv_dir[i].nrows > 0 /\ ~IsSelected(csv_dir[i])

\* C8: without a selected file the call never returns: once the listing is
\* read through it has faulted.
C8_MergeOfNothingFaults ==
    /\ pcM = "returned" => (SelectedFiles # <<>> /\ df.rows # <<>>)
    /\ (SelectedFiles = <<>> /\ pcM # "scan") => pcM = "fault"

\* a directory with files, none of them selected, was read through and the
\* call faulted
C8_Witness ==
    /\ pcM = "fault"
    /\ posM = Len(csv_dir)
    /\ Len(csv_dir) >= 2
    /\ SelectedFiles = <<>>
    /\ \E i \in 1..Len(csv_dir) : EndsInCsv(csv_dir[i].name) /\ csv_dir[i].nrows > 0

(***************************************************************************)
(* unzip_all.  A file of zip_dir is its name and its content: the members   *)
(* of a zip archive, or something zipfile.ZipFile cannot read.  What a file *)
(* holds does not follow from its name.  One step per listed name.          *)
(***************************************************************************)
MaxEntries == 2

ZipNames ==
    { <<"a", ".", "z", "i", "p">>,
      <<"b", ".", "z", "i", "p">>,
      <<"a", ".", "t", "x", "t">>,
      <<"a", "z", "i", "p">> }
MemberNames == {"x", "y"}
\* content: the set of members of an archive; {"BadZipFile"} for no archive
NotAnArchive == {"BadZipFile"}
ZipContents == (SUBSET MemberNames) \cup {NotAnArchive}
ZipEntries == [name : ZipNames, content : ZipContents]
ZipDirs ==
    { d \in UNION { [1..n -> ZipEntries] : n \in 0..MaxEntries } :
        \A i, j \in 1..Len(d) : i # j => d[i].name # d[j].name }
NoFile == <<>>
OldMember == <<"old">>

\* zr.extractall(unzip_dir): every member is written, over what was there
extractall(dir, entry) ==
    [m \in MemberNames |-> IF m \in entry.content THEN entry.name ELSE dir[m]]

InitUnzip ==
    /\ zip_dir \in ZipDirs
    /\ unzip_dir \in [MemberNames -> {NoFile, OldMember}]
    /\ unzip_dir0 = unzip_dir
    /\ posU = 0
    /\ pcU = "loop"
    /\ IdleT /\ IdleC /\ IdleD /\ IdleH /\ IdleM

\* the loop body with the test of the extension left out
unzip_next_any_name ==
    /\ pcU = "loop" /\ posU < Len(zip_dir)
    /\ LET entry == zip_dir[posU + 1]
       IN  /\ posU' = posU + 1
           /\ IF entry.content = NotAnArchive
                THEN pcU' = "fault" /\ UNCHANGED unzip_dir
                ELSE unzip_dir' = extractall(unzip_dir, entry) /\ UNCHANGED pcU
    /\ UNCHANGED <<zip_dir, unzip_dir0>>
    /\ UNCHANGED OtherU

\* for fname in os.listdir(zip_dir): if fname.endswith(".zip"): with
\* zipfile.ZipFile(...) as zr (BadZipFile when it is no archive):
\* zr.extractall(unzip_dir)
unzip_next ==
    /\ pcU = "loop" /\ posU < Len(zip_dir)
    /\ LET entry == zip_dir[posU + 1]
       IN  /\ posU' = posU + 1
           /\ IF str_endswith(entry.name, <<".", "z", "i", "p">>)
                THEN IF entry.content = NotAnArchive
                       THEN pcU' = "fault" /\ UNCHANGED unzip_dir
                       ELSE unzip_dir' = extractall(unzip_dir, entry) /\ UNCHANGED pcU
                ELSE UNCHANGED <<unzip_dir, pcU>>
    /\ UNCHANGED <<zip_dir, unzip_dir0>>
    /\ UNCHANGED OtherU

\* the listing is exhausted: unzip_all returns
unzip_return ==
    /\ pcU = "loop" /\ posU = Len(zip_dir)
    /\ pcU' = "done"
    /\ UNCHANGED <<zip_dir, unzip_dir, unzip_dir0, posU>>
    /\ UNCHANGED OtherU

NextUnzip == unzip_next \/ unzip_return

SpecUnzip == InitUnzip /\ [][NextUnzip]_vars

EndsInZip(n) ==
    /\ Len(n) >= 4
    /\ n[Len(n) - 3] = "." /\ n[Len(n) - 2] = "z" /\ n[Len(n) - 1] = "i" /\ n[Len(n)] = "p"
\* the places in the listing of the .zip entries that hold member m
ZipsWith(m) == { i \in 1..Len(zip_dir) : EndsInZip(zip_dir[i].name) /\ m \in zip_dir[i].content }

\* C9: when unzip_all returns, the directory holds every member of every
\* entry named *.zip (the later archive's, where two hold the same member)
\* and is otherwise as it was; the other entries add nothing, and a fault
\* comes from an entry named *.zip only.
C9_UnzipExtractsZipEntriesOnly ==
    /\ pcU = "done" =>
          \A m \in MemberNames :
              unzip_dir[m] = IF ZipsWith(m) = {} THEN unzip_dir0[m]
                                                ELSE zip_dir[Max(ZipsWith(m))].name
    /\ pcU = "fault" => EndsInZip(zip_dir[posU].name)

\* a listing of one archive named *.zip and one archive under another name
\* was read through: the first one's member is there, the other's is not
C9_Witness ==
    /\ pcU = "done"
    /\ Len(zip_dir) = 2
    /\ \E i, j \in 1..2 :
          /\ EndsInZip(zip_dir[i].name) /\ zip_dir[i].content = {"x"}
          /\ ~EndsInZip(zip_dir[j].name) /\ zip_dir[j].content = {"y"}
          /\ unzip_dir["x"] = zip_dir[i].name
    /\ unzip_dir0["y"] = NoFile
    /\ unzip_dir["y"] = NoFile

=============================================================================
